---- MODULE Spec2Model ----
(***************************************************************************)
(* Model of src/db_manager.py: IbovespaDBManager, its connection           *)
(* lifecycle, its statement primitives and the batched upsert              *)
(* insert_ibovespa_data, running against a MySQL table Ft_Ibovespa with a  *)
(* UNIQUE index on date.                                                   *)
(*                                                                         *)
(* A row of the table is [date, val]: val stands for the fourteen mutable  *)
(* columns, which the code always reads and writes together.  The table is *)
(* a function from calendar days to the sequence of the values of the rows *)
(* stored for that day, so that two rows of one day are representable.     *)
(***************************************************************************)
EXTENDS Integers, Sequences, FiniteSets, TLC

\* ------------------------------------------------------------- bounds
MaxDate == 2
MaxRecs == 3
MaxBatch == 2
MaxRetries == 2
MaxConns == 2

\* default arguments of the code
DefaultMaxRetries == 3
DefaultRetryDelay == 2

Dates == 1..MaxDate
ConnIds == 1..MaxConns

\* ------------------------------------------------------------- values
\* A field value of an input record: the not-a-number sentinel, None (a
\* field the row does not have: row.get(name, None)) or a number.  A stored
\* field is NULL (None) or a number.
NaN == "NaN"
NULL == "NULL"
Vals == {NaN, NULL, "101.50"}

NoConn == 0
NoCursor == 0
NoStmt == "none"
NoErr == [errno |-> 0, stmt |-> NoStmt]

\* Errors of the driver (mysql.connector.Error): an error number and no
\* statement: the driver's exceptions do not carry the statement text.
DuplicateKey == [errno |-> 1062, stmt |-> NoStmt]
NoSuchTable == [errno |-> 1146, stmt |-> NoStmt]
ServerGone == [errno |-> 2006, stmt |-> NoStmt]
DuplicateKeyName == [errno |-> 1061, stmt |-> NoStmt]
\* Errors of the interpreter, which no handler of the module catches.
AttributeError == [errno |-> -1, stmt |-> NoStmt]

IsDriverError(e) == e.errno > 0

\* ------------------------------------------------------------- nan_to_none
nan_to_none_keep(value) == value

nan_to_none(value) == IF value = NaN THEN NULL ELSE value

\* ------------------------------------------------------------- dates
\* A value a date cell can be compared with: a date object or a text.
DateValue(d) == [type |-> "date", day |-> d]
DateText(d) == [type |-> "text", day |-> d]

\* date_obj of the loop: strptime(...).date(), Timestamp.date(), or the date.
DateObj(raw) == DateValue(raw.day)

\* date_str = date_obj.strftime('%Y-%m-%d')
DateStr(dateObj) == DateText(dateObj.day)

\* The server reads a bound date parameter (ISO text) as a calendar day.
SqlDay(p) == p.day

\* ------------------------------------------------------------- the table
EmptyTable == [d \in Dates |-> <<>>]

TableDates(tbl) == {d \in Dates : tbl[d] # <<>>}

RECURSIVE SumOver(_, _)
SumOver(f, S) ==
    IF S = {} THEN 0
    ELSE LET x == CHOOSE y \in S : TRUE
         IN f[x] + SumOver(f, S \ {x})

RowCount(tbl) == SumOver([d \in Dates |-> Len(tbl[d])], Dates)

\* UNIQUE INDEX idx_date (date): an INSERT of a stored day is refused.
UniqueDateFree(tbl, day) == TRUE

UniqueDate(tbl, day) == tbl[day] = <<>>

\* One INSERT ... VALUES (date, fields).
InsertRow(tbl, p) ==
    IF UniqueDate(tbl, SqlDay(p.date))
    THEN [err |-> NoErr, tbl |-> [tbl EXCEPT ![SqlDay(p.date)] = Append(@, p.val)], rows |-> 1]
    ELSE [err |-> DuplicateKey, tbl |-> tbl, rows |-> 0]

\* One UPDATE ... SET fields WHERE date = ?.  The server reports as affected
\* the rows whose values changed (the connection is opened without the
\* FOUND_ROWS client flag), not the rows the WHERE clause matched.
ChangedRows(old, new) == Cardinality({i \in DOMAIN old : old[i] # new[i]})

UpdateRowEveryDate(tbl, p) ==
    LET new == [d \in Dates |-> [i \in DOMAIN tbl[d] |-> p.val]]
    IN [err |-> NoErr, tbl |-> new,
        rows |-> Cardinality({d \in Dates : ChangedRows(tbl[d], new[d]) > 0})]

UpdateRowSkipNull(tbl, p) ==
    LET day == SqlDay(p.date)
        new == [i \in DOMAIN tbl[day] |-> IF p.val = NULL THEN tbl[day][i] ELSE p.val]
    IN [err |-> NoErr, tbl |-> [tbl EXCEPT ![day] = new],
        rows |-> ChangedRows(tbl[day], new)]

UpdateRow(tbl, p) ==
    LET day == SqlDay(p.date)
        new == [i \in DOMAIN tbl[day] |-> p.val]
    IN [err |-> NoErr, tbl |-> [tbl EXCEPT ![day] = new],
        rows |-> ChangedRows(tbl[day], new)]

ApplyRow(kind, tbl, p) ==
    IF kind = "INSERT" THEN InsertRow(tbl, p) ELSE UpdateRow(tbl, p)

\* cursor.executemany(query, params): the parameter sets run in order inside
\* the open transaction `tbl`; the run stops at the first error.  fault = k
\* makes the driver fail at the k-th parameter set (0: no driver fault).
\* The table does not exist: every statement on it fails with error 1146.
RECURSIVE CursorExecuteMany(_, _, _, _, _, _)
CursorExecuteMany(kind, tbl, params, k, fault, rows) ==
    IF k > Len(params) THEN [err |-> NoErr, tbl |-> tbl, rows |-> rows]
    ELSE IF k = fault THEN [err |-> ServerGone, tbl |-> tbl, rows |-> rows]
    ELSE LET r == ApplyRow(kind, tbl, params[k])
         IN IF r.err # NoErr THEN [err |-> r.err, tbl |-> r.tbl, rows |-> rows]
            ELSE CursorExecuteMany(kind, r.tbl, params, k + 1, fault, rows + r.rows)

\* ------------------------------------------------------------- statements
\* The statements the module sends through execute_query and execute_many.
SelectDates == [verb |-> "SELECT", text |-> "SELECT date FROM Ft_Ibovespa"]
SelectCount == [verb |-> "SELECT", text |-> "SELECT COUNT(*) FROM Ft_Ibovespa"]
CreateTable == [verb |-> "CREATE", text |-> "CREATE TABLE IF NOT EXISTS Ft_Ibovespa"]
OptimizeTable == [verb |-> "OPTIMIZE", text |-> "OPTIMIZE TABLE Ft_Ibovespa"]
InsertStmt == [verb |-> "INSERT", text |-> "INSERT INTO Ft_Ibovespa"]
UpdateStmt == [verb |-> "UPDATE", text |-> "UPDATE Ft_Ibovespa SET ... WHERE date = %s"]

SelectMaxDate == [verb |-> "SELECT", text |-> "SELECT MAX(date) FROM Ft_Ibovespa"]
SelectIndices ==
    [verb |-> "SELECT", text |-> "SELECT INDEX_NAME FROM INFORMATION_SCHEMA.STATISTICS"]

\* The secondary indices _add_indices looks after, in its order.
IndexNames == {"idx_year_month", "idx_close"}

CreateIndex(name) ==
    [verb |-> "CREATE",
     text |-> IF name = "idx_year_month"
              THEN "CREATE INDEX idx_year_month ON Ft_Ibovespa (year, month)"
              ELSE "CREATE INDEX idx_close ON Ft_Ibovespa (close)"]

Queries == {SelectDates, SelectCount, CreateTable, OptimizeTable}

\* query.strip().upper().startswith('SELECT')
IsSelectNever(query) == FALSE

IsSelect(query) == query.verb = "SELECT"

\* The rows of SELECT date FROM Ft_Ibovespa: one <<date>> per stored row.
RECURSIVE DateRows(_, _)
DateRows(tbl, d) ==
    IF d > MaxDate THEN <<>>
    ELSE [i \in DOMAIN tbl[d] |-> <<DateValue(d)>>] \o DateRows(tbl, d + 1)

\* CREATE TABLE IF NOT EXISTS Ft_Ibovespa: a table that is there is left
\* as it is, with its rows and indices.
CreateAnew(db) ==
    [db EXCEPT !.tableExists = TRUE, !.store = EmptyTable, !.work = EmptyTable,
               !.indices = {}]

CreateIfNotExists(db) == [db EXCEPT !.tableExists = TRUE]

\* The rows of the index lookup: one per indexed column of each index of the
\* table, none when there is no table.
IndexRows(db) ==
    IF ~db.tableExists THEN <<>>
    ELSE << <<"PRIMARY">>, <<"idx_date">> >>
         \o (IF "idx_year_month" \in db.indices
             THEN << <<"idx_year_month">>, <<"idx_year_month">> >> ELSE <<>>)
         \o (IF "idx_close" \in db.indices THEN << <<"idx_close">> >> ELSE <<>>)

\* The greatest stored date, or SQL NULL in the date column.
NullDate == [type |-> "NULL"]

MaxDateRow(tbl) ==
    IF TableDates(tbl) = {} THEN <<NullDate>>
    ELSE <<DateValue(CHOOSE d \in TableDates(tbl) : \A o \in TableDates(tbl) : o <= d)>>

\* cursor.execute(query) on the session db = [store, work, tableExists,
\* indices] and the rows a later fetchall() yields.  fault = 1: the driver
\* fails.  A data definition statement takes effect at once.
CursorExecute(db, query, fault) ==
    IF fault = 1 THEN [err |-> ServerGone, db |-> db, rows |-> <<>>]
    ELSE IF query = CreateTable
    THEN [err |-> NoErr, db |-> CreateIfNotExists(db), rows |-> <<>>]
    ELSE IF query = SelectIndices
    THEN [err |-> NoErr, db |-> db, rows |-> IndexRows(db)]
    ELSE IF ~db.tableExists THEN [err |-> NoSuchTable, db |-> db, rows |-> <<>>]
    ELSE IF \E name \in IndexNames : query = CreateIndex(name)
    THEN LET name == CHOOSE n \in IndexNames : query = CreateIndex(n)
         IN IF name \in db.indices
            THEN [err |-> DuplicateKeyName, db |-> db, rows |-> <<>>]
            ELSE [err |-> NoErr, db |-> [db EXCEPT !.indices = @ \cup {name}], rows |-> <<>>]
    ELSE IF query = SelectMaxDate
    THEN [err |-> NoErr, db |-> db, rows |-> <<MaxDateRow(db.work)>>]
    ELSE IF query = SelectDates
    THEN [err |-> NoErr, db |-> db, rows |-> DateRows(db.work, 1)]
    ELSE IF query = SelectCount
    THEN [err |-> NoErr, db |-> db, rows |-> << <<RowCount(db.work)>> >>]
    ELSE [err |-> NoErr, db |-> db, rows |-> <<>>]

\* conn.commit() and conn.rollback() of the session.
CommitOmitted(db) == db

Commit(db) == [db EXCEPT !.store = db.work]

RollbackOmitted(db) == db

Rollback(db) == [db EXCEPT !.work = db.store]

\* The record logger.error writes: the error and, where the message has it,
\* the query text.
ErrorLog(what, e, text) ==
    [level |-> "error", what |-> what, err |-> e, query |-> text]

\* ------------------------------------------------------------- execute_query
\* What a call returns: None, a count, or the rows of a result set.
RetNone == [kind |-> "None"]
RetInt(n) == [kind |-> "int", n |-> n]
RetRows(rows) == [kind |-> "rows", rows |-> rows]

\* fault: 0 none, 1 cursor.execute fails, 2 conn.commit fails.
execute_query(db, query, fault) ==
    LET r == CursorExecute(db, query, fault)
    IN IF r.err # NoErr
       THEN [raised |-> r.err, result |-> RetNone, db |-> Rollback(r.db),
             trace |-> <<"execute", "rollback">>,
             log |-> <<ErrorLog("execute_query", r.err, query.text)>>]
       ELSE IF IsSelect(query)
       THEN [raised |-> NoErr, result |-> RetRows(r.rows), db |-> r.db,
             trace |-> <<"execute", "fetchall">>, log |-> <<>>]
       ELSE IF fault = 2
       THEN [raised |-> ServerGone, result |-> RetNone, db |-> Rollback(r.db),
             trace |-> <<"execute", "commit", "rollback">>,
             log |-> <<ErrorLog("execute_query", ServerGone, query.text)>>]
       ELSE [raised |-> NoErr, result |-> RetNone, db |-> Commit(r.db),
             trace |-> <<"execute", "commit">>, log |-> <<>>]

\* ------------------------------------------------------------- execute_many
CleanParams(p) == [p EXCEPT !.val = nan_to_none(@)]

\* fault: 0 none, k in 1..Len: executemany fails at the k-th parameter set,
\* Len + 1: conn.commit fails.
execute_many(db, query, params_list, fault) ==
    IF params_list = <<>>
    THEN [raised |-> NoErr, result |-> RetInt(0), db |-> db, trace |-> <<>>, log |-> <<>>]
    ELSE LET clean_params_list == [k \in DOMAIN params_list |-> CleanParams(params_list[k])]
             r == IF db.tableExists
                  THEN CursorExecuteMany(query.verb, db.work, clean_params_list, 1, fault, 0)
                  ELSE [err |-> NoSuchTable, tbl |-> db.work, rows |-> 0]
             dirty == [db EXCEPT !.work = r.tbl]
         IN IF r.err # NoErr
            THEN [raised |-> r.err, result |-> RetNone, db |-> Rollback(dirty),
                  trace |-> <<"executemany", "rollback">>,
                  log |-> <<ErrorLog("execute_many", r.err, query.text)>>]
            ELSE IF fault = Len(params_list) + 1
            THEN [raised |-> ServerGone, result |-> RetNone, db |-> Rollback(dirty),
                  trace |-> <<"executemany", "commit", "rollback">>,
                  log |-> <<ErrorLog("execute_many", ServerGone, query.text)>>]
            ELSE [raised |-> NoErr, result |-> RetInt(r.rows), db |-> Commit(dirty),
                  trace |-> <<"executemany", "commit">>, log |-> <<>>]

\* ------------------------------------------------------------- schema setup
WarnLog(what, e) == [level |-> "warning", what |-> what, err |-> e]
InfoLog(what, text) == [level |-> "info", what |-> what, text |-> text]

\* existing_indices = {index[0] for index in indices} if indices else set()
ExistingIndicesNone(rows) == {}

ExistingIndices(rows) == {rows[k][1] : k \in DOMAIN rows}

\* What goes on to the caller from `except mysql.connector.Error as e:
\* logger.warning(...)`.
Propagated(e) == e

Swallowed(e) == NoErr

\* if name not in existing_indices: execute_query(CREATE INDEX ...); log.
\* st = [db, raised, trace, log]: nothing runs once an error was raised; r
\* is what execute_query did with the statement.
IndexIssued(st, name, r) ==
    [db |-> r.db, raised |-> r.raised, trace |-> st.trace \o r.trace,
     log |-> st.log \o r.log \o
             (IF r.raised = NoErr THEN <<InfoLog("index added", name)>> ELSE <<>>)]

EnsureIndex(st, name, existing_indices, fault) ==
    IF st.raised # NoErr \/ name \in existing_indices THEN st
    ELSE IndexIssued(st, name, execute_query(st.db, CreateIndex(name), fault))

\* The lookup of _add_indices, `look` being what execute_query did with it.
AfterLookup(look) ==
    [db |-> look.db, raised |-> look.raised, trace |-> look.trace, log |-> look.log]

Found(look) == IF look.raised = NoErr THEN ExistingIndices(look.result.rows) ELSE {}

\* except mysql.connector.Error as e: logger.warning(...)
IndicesEnd(st) ==
    IF st.raised # NoErr
    THEN [st EXCEPT !.raised = Swallowed(st.raised),
                    !.log = Append(@, WarnLog("_add_indices", st.raised))]
    ELSE st

\* _add_indices from its lookup on.  The statement numbered `at` fails (2:
\* the lookup, 3: CREATE INDEX idx_year_month, 4: CREATE INDEX idx_close), at
\* `kind` (1: cursor.execute, 2: conn.commit).
IndicesFrom(look, at, kind) ==
    IndicesEnd(EnsureIndex(EnsureIndex(AfterLookup(look), "idx_year_month", Found(look),
                                       IF at = 3 THEN kind ELSE 0),
                           "idx_close", Found(look), IF at = 4 THEN kind ELSE 0))

add_indices(db, at, kind) ==
    IndicesFrom(execute_query(db, SelectIndices, IF at = 2 THEN 1 ELSE 0), at, kind)

\* create_ft_ibovespa_table after its two steps: c is what execute_query did
\* with CREATE TABLE, a what _add_indices did.
TableEnd(c, a) ==
    IF a.raised # NoErr
    THEN [db |-> a.db, raised |-> a.raised, trace |-> c.trace \o a.trace,
          log |-> Append(c.log \o a.log,
                         ErrorLog("create_ft_ibovespa_table", a.raised, NoStmt))]
    ELSE [db |-> a.db, raised |-> NoErr, trace |-> c.trace \o a.trace,
          log |-> Append(c.log \o a.log, InfoLog("create_ft_ibovespa_table", "ready"))]

TableFrom(c, at, kind) ==
    IF c.raised # NoErr
    THEN [db |-> c.db, raised |-> c.raised, trace |-> c.trace,
          log |-> Append(c.log, ErrorLog("create_ft_ibovespa_table", c.raised, NoStmt))]
    ELSE TableEnd(c, add_indices(c.db, at, kind))

\* create_ft_ibovespa_table (at = 1: the CREATE TABLE statement fails).
create_ft_ibovespa_table(db, at, kind) ==
    TableFrom(execute_query(db, CreateTable, IF at = 1 THEN kind ELSE 0), at, kind)

\* optimize_table, r being what execute_query did with the statement.
OptimizeEnd(r) ==
    IF r.raised # NoErr
    THEN [db |-> r.db, raised |-> Swallowed(r.raised), trace |-> r.trace,
          log |-> Append(r.log, WarnLog("optimize_table", r.raised))]
    ELSE [db |-> r.db, raised |-> NoErr, trace |-> r.trace,
          log |-> Append(r.log, InfoLog("optimize_table", "optimized"))]

optimize_table(db, fault) == OptimizeEnd(execute_query(db, OptimizeTable, fault))

\* ------------------------------------------------------------- get_existing_dates
\* The set of the dates of the result rows; the empty set when the query
\* fails (the error is logged and swallowed).
get_existing_dates(db, fault) ==
    LET r == execute_query(db, SelectDates, fault)
    IN IF r.raised # NoErr
       THEN [dates |-> {}, read |-> FALSE, db |-> r.db, trace |-> r.trace,
             log |-> r.log \o <<ErrorLog("get_existing_dates", r.raised, NoStmt)>>]
       ELSE [dates |-> {r.result.rows[k][1] : k \in DOMAIN r.result.rows},
             read |-> TRUE, db |-> r.db, trace |-> r.trace, log |-> r.log]

\* ------------------------------------------------------------- classification
\* The frame as the loop sees it: each row's Date cell in the representation
\* `cell` = [form, tod] of the frame's Date column: ISO text, a timestamp (a
\* day and a time of day) or a plain date.
RawRows(data, cell) ==
    [k \in DOMAIN data |->
        [Date |-> [form |-> cell.form, day |-> data[k].day, tod |-> cell.tod],
         val |-> data[k].val]]

Cells ==
    {[form |-> "str", tod |-> 0], [form |-> "ts", tod |-> 0],
     [form |-> "ts", tod |-> 1], [form |-> "date", tod |-> 0]}

\* if date_obj in existing_dates
IsExistingByText(date_obj, existing_dates) == DateStr(date_obj) \in existing_dates

IsExisting(date_obj, existing_dates) == date_obj \in existing_dates

\* The for loop over data.iterrows(): updates and inserts, in input order.
RECURSIVE ClassifyOnce(_, _, _, _, _)
ClassifyOnce(rows, k, existing_dates, inserts, updates) ==
    IF k > Len(rows) THEN [inserts |-> inserts, updates |-> updates]
    ELSE LET date_obj == DateObj(rows[k].Date)
             date_str == DateStr(date_obj)
             tuple == [date |-> date_str, val |-> rows[k].val]
         IN IF IsExisting(date_obj, existing_dates)
            THEN ClassifyOnce(rows, k + 1, existing_dates, inserts, Append(updates, tuple))
            ELSE IF \E j \in DOMAIN inserts : inserts[j].date = date_str
            THEN ClassifyOnce(rows, k + 1, existing_dates, inserts, updates)
            ELSE ClassifyOnce(rows, k + 1, existing_dates, Append(inserts, tuple), updates)

RECURSIVE Classify(_, _, _, _, _)
Classify(rows, k, existing_dates, inserts, updates) ==
    IF k > Len(rows) THEN [inserts |-> inserts, updates |-> updates]
    ELSE LET date_obj == DateObj(rows[k].Date)
             date_str == DateStr(date_obj)
             tuple == [date |-> date_str, val |-> rows[k].val]
         IN IF IsExisting(date_obj, existing_dates)
            THEN Classify(rows, k + 1, existing_dates, inserts, Append(updates, tuple))
            ELSE Classify(rows, k + 1, existing_dates, Append(inserts, tuple), updates)

\* batch = queue[i:i+batch_size]
Min(a, b) == IF a < b THEN a ELSE b

SliceToEnd(queue, i, size) == SubSeq(queue, i + 1, Len(queue))

Slice(queue, i, size) == SubSeq(queue, i + 1, Min(i + size, Len(queue)))

\* ------------------------------------------------------------- connect
\* What one attempt of the loop meets: mysql.connector.connect succeeds and
\* the cursor is created ("ok"), connect raises ("refused"), or connect
\* succeeds and conn.cursor raises ("nocursor").
Outcomes == {"ok", "refused", "nocursor"}
CantConnect == [errno |-> 2003, stmt |-> NoStmt]
NotAvailable == [errno |-> 2055, stmt |-> NoStmt]
ConnectionError == [errno |-> -2, stmt |-> NoStmt]

AttemptError(outcome) == IF outcome = "refused" THEN CantConnect ELSE NotAvailable

\* The handle a new connection gets: the least one not open.
NewConn(opened) == CHOOSE c \in ConnIds \ opened : \A o \in ConnIds \ opened : c <= o

\* raise last_error if last_error else ConnectionError(...)
RaisedAfterFirst(errors) == IF errors # <<>> THEN errors[1] ELSE ConnectionError

RaisedAfter(errors) == IF errors # <<>> THEN errors[Len(errors)] ELSE ConnectionError

\* while attempt < max_retries.  m = [conn, cursor, opened]; errors: the
\* error of each failed attempt; slept: the delays waited so far.
RECURSIVE ConnectLoop(_, _, _, _, _, _, _)
ConnectLoop(m, attempt, outs, max_retries, retry_delay, errors, slept) ==
    IF attempt < max_retries
    THEN LET o == outs[attempt + 1]
             c == NewConn(m.opened)
         IN IF o = "ok"
            THEN [m |-> [conn |-> c, cursor |-> c, opened |-> m.opened \cup {c}],
                  raised |-> NoErr, errors |-> errors, slept |-> slept]
            ELSE LET m2 == IF o = "nocursor"
                           THEN [m EXCEPT !.conn = c, !.opened = @ \cup {c}]
                           ELSE m
                     slept2 == IF attempt + 1 < max_retries
                               THEN Append(slept, retry_delay) ELSE slept
                 IN ConnectLoop(m2, attempt + 1, outs, max_retries, retry_delay,
                                Append(errors, AttemptError(o)), slept2)
    ELSE [m |-> m, raised |-> RaisedAfter(errors), errors |-> errors, slept |-> slept]

\* The connections a run of attempts opens: each needs a free handle.
RECURSIVE Opens(_, _)
Opens(outs, k) ==
    IF k > Len(outs) THEN 0
    ELSE IF outs[k] = "ok" THEN 1
    ELSE (IF outs[k] = "nocursor" THEN 1 ELSE 0) + Opens(outs, k + 1)

connect(m, outs, max_retries, retry_delay) ==
    ConnectLoop(m, 0, outs, max_retries, retry_delay, <<>>, <<>>)

\* ------------------------------------------------------------- disconnect
\* if self.conn: cursor.close(); conn.close(); conn = None; cursor = None.
\* With a connection and no cursor, self.cursor.close() raises AttributeError.
disconnect_no_close(m) ==
    IF m.conn = NoConn THEN [m |-> m, raised |-> NoErr]
    ELSE IF m.cursor = NoCursor THEN [m |-> m, raised |-> AttributeError]
    ELSE [m |-> [conn |-> NoConn, cursor |-> NoCursor, opened |-> m.opened],
          raised |-> NoErr]

disconnect(m) ==
    IF m.conn = NoConn THEN [m |-> m, raised |-> NoErr]
    ELSE IF m.cursor = NoCursor THEN [m |-> m, raised |-> AttributeError]
    ELSE [m |-> [conn |-> NoConn, cursor |-> NoCursor, opened |-> m.opened \ {m.conn}],
          raised |-> NoErr]

\* ------------------------------------------------------------- state
VARIABLES
    store,          \* the committed rows of Ft_Ibovespa
    work,           \* the rows as the held connection's transaction sees them
    tableExists,    \* Ft_Ibovespa has been created
    indices,        \* the secondary indices of Ft_Ibovespa
    conn,           \* self.conn: NoConn or the handle of a connection
    cursor,         \* self.cursor: NoCursor or the connection it belongs to
    opened,         \* the connections opened and not closed
    inWith,         \* a `with IbovespaDBManager() as db` block is running
    blockConn,      \* the connection __enter__ established for that block
    exitPath,       \* how the last block ended
    op,             \* the operation called last
    pc,             \* "idle", or where that call is
    data,           \* insert_ibovespa_data: the frame, one [day, val] per row
    batch_size,
    existing_dates,
    inserts,
    updates,
    pos,            \* the loop index i of the running batch loop
    inserted,
    updated,
    result,         \* what the call returned
    raised,         \* the error the call raised, or NoErr
    trace,          \* the driver calls the call made, in order
    log,            \* the records the call logged, in order
    submitted,      \* the batches the call passed to execute_many
    statement,      \* execute_query: the query of the call
    connectArgs,    \* connect: max_retries and retry_delay of the call
    outcomes,       \* connect: what each attempt of the call would meet
    attemptErrors,  \* connect: the error of each failed attempt
    slept,          \* connect: the delays waited
    startTable,     \* the committed rows when the call started
    snapshotRead,   \* the key query of the call succeeded
    written,        \* the days another session committed during the call
    rerun,          \* the call repeats the frame of the call before it
    prev            \* how that call before it started and ended

dbVars == <<store, work, tableExists, indices>>
connVars == <<conn, cursor, opened>>
withVars == <<inWith, blockConn, exitPath>>
reconcileVars == <<data, batch_size, existing_dates, inserts, updates, pos, inserted,
                   updated, submitted, snapshotRead, written, rerun, prev>>
connectVars == <<connectArgs, outcomes, attemptErrors, slept>>
callVars == <<op, pc, result, raised, trace, log, statement, startTable>>
vars == <<dbVars, connVars, withVars, reconcileVars, connectVars, callVars>>

\* The frames handed to insert_ibovespa_data: up to MaxRecs rows in any order
\* of days, a day possibly more than once; the rows of one frame carry the
\* same field value.
DaySeqs == UNION {[1..n -> Dates] : n \in 0..MaxRecs}
Frames == {[k \in DOMAIN days |-> [day |-> days[k], val |-> v]] : days \in DaySeqs, v \in Vals}
BatchSizes == 1..MaxBatch

Db == [store |-> store, work |-> work, tableExists |-> tableExists, indices |-> indices]
Mgr == [conn |-> conn, cursor |-> cursor, opened |-> opened]

SetDb(db) ==
    /\ store' = db.store
    /\ work' = db.work
    /\ tableExists' = db.tableExists
    /\ indices' = db.indices

SetMgr(m) ==
    /\ conn' = m.conn
    /\ cursor' = m.cursor
    /\ opened' = m.opened

NoPrev == [returned |-> FALSE, emptyStart |-> FALSE]
NoArgs == [max_retries |-> 0, retry_delay |-> 0]

\* The locals of a call that is not insert_ibovespa_data / connect / execute_query.
NoReconcile ==
    /\ data' = <<>>
    /\ batch_size' = 0
    /\ existing_dates' = {}
    /\ inserts' = <<>>
    /\ updates' = <<>>
    /\ pos' = 0
    /\ inserted' = 0
    /\ updated' = 0
    /\ submitted' = <<>>
    /\ snapshotRead' = FALSE
    /\ written' = {}
    /\ rerun' = FALSE
    /\ prev' = NoPrev

NoConnect ==
    /\ connectArgs' = NoArgs
    /\ outcomes' = <<>>
    /\ attemptErrors' = <<>>
    /\ slept' = <<>>

NoQuery == statement' = NoStmt

\* No call is running.
AtRest == pc \in {"idle", "returned", "raised"}
Idle == pc = "idle"

Init ==
    /\ store = EmptyTable
    /\ work = EmptyTable
    /\ tableExists = FALSE
    /\ indices = {}
    /\ conn = NoConn
    /\ cursor = NoCursor
    /\ opened = {}
    /\ inWith = FALSE
    /\ blockConn = NoConn
    /\ exitPath = "none"
    /\ op = "none"
    /\ pc = "idle"
    /\ data = <<>>
    /\ batch_size = 0
    /\ existing_dates = {}
    /\ inserts = <<>>
    /\ updates = <<>>
    /\ pos = 0
    /\ inserted = 0
    /\ updated = 0
    /\ result = RetNone
    /\ raised = NoErr
    /\ trace = <<>>
    /\ log = <<>>
    /\ submitted = <<>>
    /\ statement = NoStmt
    /\ connectArgs = NoArgs
    /\ outcomes = <<>>
    /\ attemptErrors = <<>>
    /\ slept = <<>>
    /\ startTable = EmptyTable
    /\ snapshotRead = FALSE
    /\ written = {}
    /\ rerun = FALSE
    /\ prev = NoPrev

\* ------------------------------------------------------------- connection
\* connect(max_retries, retry_delay).
DoConnect(max_retries, retry_delay, outs) ==
    LET r == connect(Mgr, outs, max_retries, retry_delay)
    IN /\ Opens(outs, 1) <= Cardinality(ConnIds \ opened)
       /\ SetMgr(r.m)
       /\ connectArgs' = [max_retries |-> max_retries, retry_delay |-> retry_delay]
       /\ outcomes' = outs
       /\ attemptErrors' = r.errors
       /\ slept' = r.slept
       /\ raised' = r.raised
       /\ pc' = IF r.raised = NoErr THEN "returned" ELSE "raised"
       /\ result' = RetNone
       /\ trace' = <<>>
       /\ log' = <<>>
       /\ startTable' = store
       /\ NoReconcile
       /\ NoQuery
       /\ UNCHANGED dbVars

\* The callers of the module connect and disconnect a manager by hand only
\* outside a with block; connect does not look at what the manager holds.
Connect ==
    /\ Idle
    /\ ~inWith
    /\ \E max_retries \in 0..MaxRetries, retry_delay \in {1, DefaultRetryDelay} :
         \E outs \in [1..max_retries -> Outcomes] :
            /\ DoConnect(max_retries, retry_delay, outs)
            /\ op' = "connect"
            /\ UNCHANGED withVars

Disconnect ==
    /\ Idle
    /\ ~inWith
    /\ LET r == disconnect(Mgr)
       IN /\ SetMgr(r.m)
          /\ raised' = r.raised
          /\ pc' = IF r.raised = NoErr THEN "returned" ELSE "raised"
    /\ op' = "disconnect"
    /\ result' = RetNone
    /\ trace' = <<>>
    /\ log' = <<>>
    /\ startTable' = store
    /\ NoReconcile
    /\ NoConnect
    /\ NoQuery
    /\ UNCHANGED <<dbVars, withVars>>

\* with IbovespaDBManager() as db: __enter__ runs connect() with its default
\* arguments; the block is entered when it returns.
Enter ==
    /\ Idle
    /\ ~inWith
    /\ conn = NoConn
    /\ cursor = NoCursor
    /\ \E outs \in [1..DefaultMaxRetries -> Outcomes] :
         /\ DoConnect(DefaultMaxRetries, DefaultRetryDelay, outs)
         /\ LET r == connect(Mgr, outs, DefaultMaxRetries, DefaultRetryDelay)
            IN /\ inWith' = (r.raised = NoErr)
               /\ blockConn' = IF r.raised = NoErr THEN r.m.conn ELSE NoConn
    /\ exitPath' = "none"
    /\ op' = "__enter__"

\* The block ends (by falling off its end, by return, or by an exception
\* passing through it) and __exit__ runs disconnect(); __exit__ returns None,
\* so an exception passing through goes on to the caller.
ExitPaths == {"end", "return", "exception"}

Exit ==
    /\ AtRest
    /\ inWith
    /\ \E how \in ExitPaths :
         /\ how = "exception" => raised # NoErr
         /\ exitPath' = how
         /\ LET r == disconnect(Mgr)
                passing == IF how = "exception" THEN raised ELSE NoErr
            IN /\ SetMgr(r.m)
               /\ raised' = IF r.raised # NoErr THEN r.raised ELSE passing
               /\ pc' = IF r.raised = NoErr /\ passing = NoErr THEN "returned" ELSE "raised"
    /\ inWith' = FALSE
    /\ UNCHANGED blockConn
    /\ op' = "__exit__"
    /\ result' = RetNone
    /\ trace' = <<>>
    /\ log' = <<>>
    /\ startTable' = store
    /\ NoReconcile
    /\ NoConnect
    /\ NoQuery
    /\ UNCHANGED dbVars

\* ------------------------------------------------------------- primitives
\* A call of execute_query / execute_many with no cursor: self.cursor.execute
\* raises AttributeError, which their handlers do not catch.
NoCursorCall ==
    [raised |-> AttributeError, result |-> RetNone, db |-> Db, trace |-> <<>>, log |-> <<>>]

\* A statement of the module's own handlers, sent through execute_query.
ExecuteQuery ==
    /\ Idle
    /\ \E query \in Queries, fault \in 0..2 :
         /\ fault = 2 => ~IsSelect(query)
         /\ cursor = NoCursor => fault = 0
         /\ statement' = query.text
         /\ LET r == IF cursor = NoCursor THEN NoCursorCall
                     ELSE execute_query(Db, query, fault)
            IN /\ SetDb(r.db)
               /\ result' = r.result
               /\ raised' = r.raised
               /\ trace' = r.trace
               /\ log' = r.log
               /\ pc' = IF r.raised = NoErr THEN "returned" ELSE "raised"
    /\ op' = "execute_query"
    /\ startTable' = store
    /\ NoReconcile
    /\ NoConnect
    /\ UNCHANGED <<connVars, withVars>>

\* ------------------------------------------------------------- setup, maintenance
\* A call of a method that runs to its end in one step: r = [db, raised,
\* trace, log] is what it did.
Called(name, r, value) ==
    /\ SetDb(r.db)
    /\ op' = name
    /\ raised' = r.raised
    /\ pc' = IF r.raised = NoErr THEN "returned" ELSE "raised"
    /\ result' = IF r.raised = NoErr THEN value ELSE RetNone
    /\ trace' = r.trace
    /\ log' = r.log
    /\ startTable' = store
    /\ NoReconcile
    /\ NoConnect
    /\ NoQuery
    /\ UNCHANGED <<connVars, withVars>>

CreateFtIbovespaTable ==
    /\ Idle
    /\ IF cursor = NoCursor
       THEN Called("create_ft_ibovespa_table", NoCursorCall, RetNone)
       ELSE \E at \in 0..4, kind \in 1..2 :
            /\ at \in {0, 2} => kind = 1
            /\ Called("create_ft_ibovespa_table",
                      create_ft_ibovespa_table(Db, at, kind), RetNone)

Optimize ==
    /\ Idle
    /\ IF cursor = NoCursor
       THEN Called("optimize_table", NoCursorCall, RetNone)
       ELSE \E fault \in 0..2 : Called("optimize_table", optimize_table(Db, fault), RetNone)

\* ------------------------------------------------------------- insert_ibovespa_data
\* logger.info of a committed batch: its number, the number of batches and
\* the rows it affected.
BatchLog(verb, i, n, size, rows) ==
    [level |-> "info", what |-> verb, batch_num |-> (i \div size) + 1,
     total_batches |-> ((n - 1) \div size) + 1, rows |-> rows]

\* if data.empty
IsEmptyNever(frame) == FALSE

IsEmpty(frame) == frame = <<>>

\* inserted += rows_affected; updated += rows_affected
AccumulateLast(total, rows_affected) == rows_affected

Accumulate(total, rows_affected) == total + rows_affected

\* Where the call goes after the classification, and after the insert loop:
\* `if inserts:` and `if updates:` guard the two loops.
AfterClassifyUpdatesFirst(ins, upd) ==
    IF upd # <<>> THEN "updating" ELSE IF ins # <<>> THEN "inserting" ELSE "returned"

AfterClassify(ins, upd) ==
    IF ins # <<>> THEN "inserting" ELSE IF upd # <<>> THEN "updating" ELSE "returned"

AfterInserts == IF updates # <<>> THEN "updating" ELSE "returned"

\* range(0, len(queue), batch_size) of the loop the call enters first (to):
\* a step of zero raises ValueError, which the handler for
\* mysql.connector.Error does not catch; a negative step gives an empty
\* range, for either queue, and the call goes on to return total.
ValueError == [errno |-> -3, stmt |-> NoStmt]

Range(size, to) ==
    IF to = "returned" \/ size > 0 THEN to
    ELSE IF size = 0 THEN "raised"
    ELSE "returned"

\* The call up to the end of the classification loop.
Begin(frame, size, again) ==
    /\ data' = frame
    /\ batch_size' = size
    /\ rerun' = again
    /\ prev' = IF again
               THEN [returned |-> pc = "returned",
                     emptyStart |-> tableExists /\ startTable = EmptyTable]
               ELSE NoPrev
    /\ startTable' = store
    /\ submitted' = <<>>
    /\ written' = {}
    /\ inserted' = 0
    /\ updated' = 0
    /\ pos' = 0
    /\ op' = "insert_ibovespa_data"
    /\ NoConnect
    /\ NoQuery
    /\ UNCHANGED <<connVars, withVars>>
    /\ IF IsEmpty(frame)
       THEN \* return 0
            /\ pc' = "returned"
            /\ result' = RetInt(0)
            /\ raised' = NoErr
            /\ trace' = <<>>
            /\ log' = <<[level |-> "warning", what |-> "empty"]>>
            /\ existing_dates' = {}
            /\ inserts' = <<>>
            /\ updates' = <<>>
            /\ snapshotRead' = FALSE
            /\ UNCHANGED dbVars
       ELSE IF cursor = NoCursor
       THEN \* get_existing_dates -> execute_query -> self.cursor.execute
            /\ pc' = "raised"
            /\ result' = RetNone
            /\ raised' = AttributeError
            /\ trace' = <<>>
            /\ log' = <<>>
            /\ existing_dates' = {}
            /\ inserts' = <<>>
            /\ updates' = <<>>
            /\ snapshotRead' = FALSE
            /\ UNCHANGED dbVars
       ELSE \E fault \in 0..1, cell \in Cells :
            LET g == get_existing_dates(Db, fault)
                q == Classify(RawRows(frame, cell), 1, g.dates, <<>>, <<>>)
                to == Range(size, AfterClassify(q.inserts, q.updates))
            IN /\ existing_dates' = g.dates
               /\ snapshotRead' = g.read
               /\ inserts' = q.inserts
               /\ updates' = q.updates
               /\ SetDb(g.db)
               /\ trace' = g.trace
               /\ log' = g.log
               /\ result' = IF to = "returned" THEN RetInt(0) ELSE RetNone
               /\ raised' = IF to = "raised" THEN ValueError ELSE NoErr
               /\ pc' = to

Reconcile ==
    /\ Idle
    /\ \E frame \in Frames, size \in BatchSizes : Begin(frame, size, FALSE)

\* batch_size is an int the caller is free to choose: the call does not
\* check it.
AnySizes == (-1)..MaxBatch

ReconcileAnySize ==
    /\ Idle
    /\ \E frame \in Frames, size \in AnySizes : Begin(frame, size, FALSE)

\* The caller runs the call that just ended once more, on the same frame.
ReconcileAgain ==
    /\ pc \in {"returned", "raised"}
    /\ op = "insert_ibovespa_data"
    /\ ~rerun
    /\ data # <<>>
    /\ Begin(data, batch_size, TRUE)

\* except mysql.connector.Error as e: rollback, logger.error, raise: where
\* the call is after a batch failed at `at`.
OnBatchErrorRetry(at) == at

OnBatchErrorGoOn(at) == IF at = "inserting" /\ updates # <<>> THEN "updating" ELSE "raised"

OnBatchError(at) == "raised"

\* One pass of a batch loop: execute_many on queue[i:i+batch_size].  An error
\* reaches the handler of insert_ibovespa_data: rollback, log, raise.
BatchStep(stmt, queue, after) ==
    LET batch == Slice(queue, pos, batch_size)
    IN \E fault \in 0..(Len(batch) + 1) :
       LET r == execute_many(Db, stmt, batch, fault)
           last == pos + batch_size >= Len(queue)
       IN /\ SetDb(IF r.raised = NoErr THEN r.db ELSE Rollback(r.db))
          /\ submitted' = Append(submitted,
                [query |-> stmt.verb, batch |-> batch, before |-> store,
                 raised |-> r.raised, result |-> r.result])
          /\ IF r.raised # NoErr
             THEN /\ pc' = OnBatchError(pc)
                  /\ raised' = r.raised
                  /\ result' = RetNone
                  /\ trace' = trace \o r.trace \o <<"rollback">>
                  /\ log' = log \o r.log
                            \o <<ErrorLog("insert_ibovespa_data", r.raised, NoStmt)>>
                  /\ UNCHANGED <<pos, inserted, updated>>
             ELSE /\ inserted' = IF stmt = InsertStmt
                                 THEN Accumulate(inserted, r.result.n) ELSE inserted
                  /\ updated' = IF stmt = UpdateStmt
                                THEN Accumulate(updated, r.result.n) ELSE updated
                  /\ trace' = trace \o r.trace
                  /\ log' = Append(log \o r.log,
                                   BatchLog(stmt.verb, pos, Len(queue), batch_size, r.result.n))
                  /\ raised' = NoErr
                  /\ pos' = IF last THEN 0 ELSE pos + batch_size
                  /\ pc' = IF last THEN after ELSE pc
                  /\ result' = IF last /\ after = "returned"
                               THEN RetInt(inserted' + updated') ELSE RetNone
          /\ UNCHANGED <<data, batch_size, existing_dates, inserts, updates, startTable,
                         snapshotRead, written, rerun, prev, op, statement, connVars,
                         withVars, connectVars>>

InsertBatch ==
    /\ pc = "inserting"
    /\ BatchStep(InsertStmt, inserts, AfterInserts)

UpdateBatch ==
    /\ pc = "updating"
    /\ BatchStep(UpdateStmt, updates, "returned")

\* Another session commits a row of a date the table does not hold, while
\* the call is between its key read and one of its batches.  The index
\* holds for every session, so a stored date is refused to it as well.
OtherWriter ==
    /\ pc \in {"inserting", "updating"}
    /\ tableExists
    /\ \E d \in Dates, v \in {nan_to_none(x) : x \in Vals} :
         LET r == InsertRow(store, [date |-> DateText(d), val |-> v])
         IN /\ r.err = NoErr
            /\ store' = r.tbl
            /\ work' = r.tbl
            /\ written' = written \cup {d}
    /\ UNCHANGED <<tableExists, indices, connVars, withVars, connectVars, callVars, data,
                   batch_size,
                   existing_dates, inserts, updates, pos, inserted, updated, submitted,
                   snapshotRead, rerun, prev>>

\* The caller takes what the call returned or raised; the call's frame is gone.
Return ==
    /\ pc \in {"returned", "raised"}
    /\ pc' = "idle"
    /\ op' = "none"
    /\ result' = RetNone
    /\ raised' = NoErr
    /\ trace' = <<>>
    /\ log' = <<>>
    /\ startTable' = EmptyTable
    /\ NoReconcile
    /\ NoConnect
    /\ NoQuery
    /\ UNCHANGED <<dbVars, connVars, withVars>>

\* ------------------------------------------------------------- store reads
\* get_table_row_count: the count, or 0 when the query fails; r is what
\* execute_query did with SELECT COUNT(*).
CountEnd(r) ==
    IF r.raised # NoErr
    THEN [value |-> 0, failed |-> TRUE, db |-> r.db,
          log |-> Append(r.log, ErrorLog("get_table_row_count", r.raised, NoStmt))]
    ELSE [value |-> IF r.result.rows # <<>> /\ r.result.rows[1] # <<>>
                    THEN r.result.rows[1][1] ELSE 0,
          failed |-> FALSE, db |-> r.db, log |-> r.log]

get_table_row_count(db, fault) == CountEnd(execute_query(db, SelectCount, fault))

\* get_last_update_date: MAX(date), or None when the table has no rows and
\* when the query fails.
LastDateEnd(r) ==
    IF r.raised # NoErr
    THEN [value |-> NullDate, failed |-> TRUE, db |-> r.db,
          log |-> Append(r.log, ErrorLog("get_last_update_date", r.raised, NoStmt))]
    ELSE [value |-> IF r.result.rows # <<>> THEN r.result.rows[1][1] ELSE NullDate,
          failed |-> FALSE, db |-> r.db, log |-> r.log]

get_last_update_date(db, fault) == LastDateEnd(execute_query(db, SelectMaxDate, fault))

\* ------------------------------------------------------------- the whole call
DefaultBatchSize == 200

\* One of the two batch loops of insert_ibovespa_data, from offset i.
\* st = [db, raised, total, log]; fault = 1: the first batch fails; r is
\* what execute_many did with queue[i:i+size].
RECURSIVE RunQueue(_, _, _, _, _, _)
AfterBatch(stmt, queue, i, size, st, fault, r) ==
    IF r.raised # NoErr
    THEN [st EXCEPT !.db = Rollback(r.db), !.raised = r.raised,
                    !.log = @ \o r.log
                            \o <<ErrorLog("insert_ibovespa_data", r.raised, NoStmt)>>]
    ELSE RunQueue(stmt, queue, i + size, size,
                  [st EXCEPT !.db = r.db,
                             !.total = Accumulate(@, r.result.n),
                             !.log = Append(@ \o r.log,
                                            BatchLog(stmt.verb, i, Len(queue), size,
                                                     r.result.n))],
                  fault)

RunQueue(stmt, queue, i, size, st, fault) ==
    IF st.raised # NoErr \/ i >= Len(queue) THEN st
    ELSE AfterBatch(stmt, queue, i, size, st, fault,
                    execute_many(st.db, stmt, Slice(queue, i, size),
                                 IF fault = 1 /\ i = 0 THEN 1 ELSE 0))

\* return total: a is the insert loop's end, b the update loop's, q the
\* two queues of the call.
CallEnd(a, b, q) ==
    [value |-> a.total + b.total, raised |-> b.raised, db |-> b.db, log |-> b.log,
     inserts |-> q.inserts, updates |-> q.updates]

FromInserts(a, q, size, faults) ==
    CallEnd(a, RunQueue(UpdateStmt, q.updates, 0, size, [a EXCEPT !.total = 0],
                        faults.update), q)

\* g is what get_existing_dates did, q the two queues.
FromQueues(g, q, size, faults) ==
    FromInserts(RunQueue(InsertStmt, q.inserts, 0, size,
                         [db |-> g.db, raised |-> NoErr, total |-> 0, log |-> g.log],
                         faults.insert),
                q, size, faults)

FromKeys(g, frame, cell, size, faults) ==
    FromQueues(g, Classify(RawRows(frame, cell), 1, g.dates, <<>>, <<>>), size, faults)

\* insert_ibovespa_data run to its end.  faults = [keys, insert, update]:
\* which of the key read, the insert loop and the update loop fails.
insert_ibovespa_data(db, frame, cell, size, faults) ==
    IF IsEmpty(frame)
    THEN [value |-> 0, raised |-> NoErr, db |-> db,
          log |-> <<[level |-> "warning", what |-> "empty"]>>,
          inserts |-> <<>>, updates |-> <<>>]
    ELSE FromKeys(get_existing_dates(db, faults.keys), frame, cell, size, faults)

\* ------------------------------------------------------------- commands
\* Where a command run can meet a failure of the server or the driver.
FaultPoints ==
    {"none", "connect", "create", "lookup", "idx_year_month", "idx_close", "count",
     "last", "keys", "insert", "update"}

At(fault, point) == IF fault = point THEN 1 ELSE 0

\* The statement of create_ft_ibovespa_table that fails.
SetupAt(fault) ==
    IF fault = "create" THEN 1
    ELSE IF fault = "lookup" THEN 2
    ELSE IF fault = "idx_year_month" THEN 3
    ELSE IF fault = "idx_close" THEN 4
    ELSE 0

BatchFaults(fault) ==
    [keys |-> At(fault, "keys"), insert |-> At(fault, "insert"),
     update |-> At(fault, "update")]

\* with IbovespaDBManager() as db: a new manager connects (every attempt is
\* refused, or the first succeeds); its session starts on the committed rows.
NewMgr == [conn |-> NoConn, cursor |-> NoCursor, opened |-> {}]

EnterRaised(fault) ==
    connect(NewMgr,
            [k \in 1..DefaultMaxRetries |-> IF fault = "connect" THEN "refused" ELSE "ok"],
            DefaultMaxRetries, DefaultRetryDelay).raised

Session(db) == [db EXCEPT !.work = db.store]

\* What connect and disconnect write to the log when they open and close
\* the connection of a with block.
Opened == InfoLog("connect", "established")
Closed == InfoLog("disconnect", "closed")

\* except Exception as e: logger.error(...); raise
CmdFailed(name, db, e, lg) ==
    [db |-> db, raised |-> e, log |-> Append(lg, ErrorLog(name, e, NoStmt))]

CmdDone(db, lg) == [db |-> db, raised |-> NoErr, log |-> lg]

\* connect gave up: its error passes through the command's handler.
NoSession(name, db, e) == CmdFailed(name, db, e, <<ErrorLog("connect", e, NoStmt)>>)

\* cmd_setup; c is what create_ft_ibovespa_table did, n the row count.
SetupEnd(c, n) ==
    CmdDone(n.db, <<Opened>> \o c.log \o n.log \o
                  <<InfoLog("cmd_setup", "configured"), Closed>>)

SetupFromTable(c, fault) ==
    IF c.raised # NoErr
    THEN CmdFailed("cmd_setup", c.db, c.raised, <<Opened>> \o c.log \o <<Closed>>)
    ELSE SetupEnd(c, get_table_row_count(c.db, At(fault, "count")))

cmd_setup(db, fault) ==
    IF EnterRaised(fault) # NoErr THEN NoSession("cmd_setup", db, EnterRaised(fault))
    ELSE SetupFromTable(create_ft_ibovespa_table(Session(db), SetupAt(fault), 1), fault)

\* A first with block that ran to its end; n is the read made in it.
FirstBlock(n) == <<Opened>> \o n.log \o <<Closed>>

\* cmd_loaddata.  fetch_ibovespa_data hands over `frame` (empty when nothing
\* was found or the download failed); answer: the reply to the prompt is a
\* yes; n: the row count, c: the table setup, i: the insert call.
LoadEnd(n, c, i) ==
    IF i.raised # NoErr
    THEN CmdFailed("cmd_loaddata", i.db, i.raised,
                   FirstBlock(n) \o <<Opened>> \o c.log \o i.log \o <<Closed>>)
    ELSE CmdDone(i.db, FirstBlock(n) \o <<Opened>> \o c.log \o i.log \o
                       <<InfoLog("cmd_loaddata", "loaded"), Closed>>)

LoadFromTable(n, c, frame, cell, fault) ==
    IF c.raised # NoErr
    THEN CmdFailed("cmd_loaddata", c.db, c.raised,
                   FirstBlock(n) \o <<Opened>> \o c.log \o <<Closed>>)
    ELSE LoadEnd(n, c, insert_ibovespa_data(c.db, frame, cell, DefaultBatchSize,
                                            BatchFaults(fault)))

LoadFromCount(n, frame, cell, answer, fault) ==
    IF n.value > 0 /\ ~answer
    THEN CmdDone(n.db, <<Opened>> \o n.log \o
                       <<InfoLog("cmd_loaddata", "cancelled"), Closed>>)
    ELSE IF IsEmpty(frame)
    THEN CmdDone(n.db, Append(FirstBlock(n), [level |-> "error", what |-> "fetch"]))
    ELSE LoadFromTable(n, create_ft_ibovespa_table(Session(n.db), SetupAt(fault), 1),
                       frame, cell, fault)

cmd_loaddata(db, frame, cell, answer, fault) ==
    IF EnterRaised(fault) # NoErr THEN NoSession("cmd_loaddata", db, EnterRaised(fault))
    ELSE LoadFromCount(get_table_row_count(Session(db), At(fault, "count")),
                       frame, cell, answer, fault)

\* start_date = (last_date - timedelta(days=args.days_lookback)), as a day.
StartDateNoLookback(last_date, days_lookback) == last_date.day

StartDate(last_date, days_lookback) == last_date.day - days_lookback

\* fetch_ibovespa_data(start_date=start_date): the records the feed has
\* from that day on.
FetchFrom(feed, start_date) ==
    LET FromStart(rec) == rec.day >= start_date
    IN SelectSeq(feed, FromStart)

\* What a command handed to insert_ibovespa_data and how the call queued
\* it; r = [db, raised, log] is what the command did.
WithCall(r, frame, i) ==
    [db |-> r.db, raised |-> r.raised, log |-> r.log,
     call |-> [data |-> frame, inserts |-> i.inserts, updates |-> i.updates]]

\* cmd_update; l: the last date, i: the insert call.  The handler around
\* get_last_update_date catches what it raises; with a cursor it raises
\* nothing, since it turns its own errors into None.
UpdateEnd(lg, i) ==
    IF i.raised # NoErr
    THEN CmdFailed("cmd_update", i.db, i.raised, lg \o <<Opened>> \o i.log \o <<Closed>>)
    ELSE CmdDone(i.db, lg \o <<Opened>> \o i.log \o
                       <<InfoLog("cmd_update", "updated"), Closed>>)

UpdateCalled(lg, frame, i) == WithCall(UpdateEnd(lg, i), frame, i)

UpdateFromFetch(l, lg, frame, cell, fault) ==
    IF IsEmpty(frame)
    THEN CmdDone(l.db, Append(lg, [level |-> "warning", what |-> "fetch"]))
    ELSE UpdateCalled(lg, frame,
                      insert_ibovespa_data(Session(l.db), frame, cell, DefaultBatchSize,
                                           BatchFaults(fault)))

UpdateFromLast(l, feed, cell, days_lookback, fault) ==
    IF l.value = NullDate
    THEN CmdDone(l.db, <<Opened>> \o l.log \o
                       <<[level |-> "warning", what |-> "no records"], Closed>>)
    ELSE UpdateFromFetch(l,
                         FirstBlock(l) \o
                                  <<InfoLog("last_date", l.value),
                                    InfoLog("start_date", StartDate(l.value, days_lookback))>>,
                         FetchFrom(feed, StartDate(l.value, days_lookback)), cell, fault)

cmd_update(db, feed, cell, days_lookback, fault) ==
    IF EnterRaised(fault) # NoErr THEN NoSession("cmd_update", db, EnterRaised(fault))
    ELSE UpdateFromLast(get_last_update_date(Session(db), At(fault, "last")),
                        feed, cell, days_lookback, fault)

\* update_args.days_lookback = 5
SyncLookback == 5

\* cmd_sync runs cmd_loaddata or cmd_update inside its own with block; what
\* they raise passes through its two handlers.  lg: the log so far, sub:
\* what the command it ran did.
SyncEnd(lg, sub) ==
    IF sub.raised # NoErr
    THEN CmdFailed("cmd_sync", sub.db, sub.raised,
                   <<Opened>> \o lg \o sub.log \o
                   <<ErrorLog("cmd_sync", sub.raised, NoStmt), Closed>>)
    ELSE CmdDone(sub.db, <<Opened>> \o lg \o sub.log \o <<Closed>>)

SyncFromLast(c, n, l, frame, cell, answer, fault) ==
    SyncEnd(c.log \o n.log \o l.log,
            IF n.value = 0
            THEN cmd_loaddata(l.db, frame, cell, answer, fault)
            ELSE cmd_update(l.db, frame, cell, SyncLookback, fault))

SyncFromCount(c, n, frame, cell, answer, fault) ==
    SyncFromLast(c, n, get_last_update_date(n.db, At(fault, "last")),
                 frame, cell, answer, fault)

SyncFromTable(c, frame, cell, answer, fault) ==
    IF c.raised # NoErr
    THEN CmdFailed("cmd_sync", c.db, c.raised,
                   <<Opened>> \o c.log \o
                   <<ErrorLog("cmd_sync", c.raised, NoStmt), Closed>>)
    ELSE SyncFromCount(c, get_table_row_count(c.db, At(fault, "count")),
                       frame, cell, answer, fault)

cmd_sync(db, frame, cell, answer, fault) ==
    IF EnterRaised(fault) # NoErr THEN NoSession("cmd_sync", db, EnterRaised(fault))
    ELSE SyncFromTable(create_ft_ibovespa_table(Session(db), SetupAt(fault), 1),
                       frame, cell, answer, fault)

\* main: sys.exit(1) when the command raised, else the process ends with 0.
ExitStatusZero(e) == 0

ExitStatus(e) == IF e = NoErr THEN 0 ELSE 1

Commands == {"cmd_setup", "cmd_loaddata", "cmd_update", "cmd_sync"}

\* The frames fetch_ibovespa_data returns: one row per trading day, in the
\* order of the days, the Date column holding timestamps.
Fetched == {f \in Frames : \A i, k \in DOMAIN f : i < k => f[i].day < f[k].day}
FetchedCells == {c \in Cells : c.form = "ts"}

\* python orquestrador.py <command>, from start to exit; r = [db, raised,
\* log] is what the command function did.  The process owns its
\* connections, which end with it.
NoCall == [data |-> <<>>, inserts |-> <<>>, updates |-> <<>>]

CallOf(r) == IF "call" \in DOMAIN r THEN r.call ELSE NoCall

\* The locals of the insert_ibovespa_data call a command made, if any.
SeenCall(c) ==
    /\ data' = c.data
    /\ batch_size' = IF c.data = <<>> THEN 0 ELSE DefaultBatchSize
    /\ inserts' = c.inserts
    /\ updates' = c.updates
    /\ existing_dates' = {}
    /\ pos' = 0
    /\ inserted' = 0
    /\ updated' = 0
    /\ submitted' = <<>>
    /\ snapshotRead' = FALSE
    /\ written' = {}
    /\ rerun' = FALSE
    /\ prev' = NoPrev

Main(name, args, r) ==
    /\ Idle
    /\ ~inWith
    /\ conn = NoConn
    /\ SetDb(Session(r.db))
    /\ op' = name
    /\ raised' = r.raised
    /\ pc' = IF r.raised = NoErr THEN "returned" ELSE "raised"
    /\ result' = RetInt(ExitStatus(r.raised))
    /\ trace' = <<>>
    /\ log' = <<InfoLog("argv", args)>> \o
              Append(r.log, IF r.raised = NoErr
                            THEN InfoLog("main", "done")
                            ELSE ErrorLog("main", r.raised, NoStmt))
    /\ startTable' = store
    /\ SeenCall(CallOf(r))
    /\ NoConnect
    /\ NoQuery
    /\ UNCHANGED <<connVars, withVars>>

\* --days-lookback: its default, and shorter windows.
DefaultLookback == 5
Lookbacks == {0, 1, DefaultLookback}

SetupArgs == [command |-> "setup"]

CmdSetup == \E fault \in FaultPoints : Main("cmd_setup", SetupArgs, cmd_setup(Db, fault))

CmdLoaddata ==
    \E fault \in FaultPoints, frame \in Fetched, cell \in FetchedCells, answer \in BOOLEAN :
        Main("cmd_loaddata", [command |-> "loaddata"],
             cmd_loaddata(Db, frame, cell, answer, fault))

CmdUpdate ==
    \E fault \in FaultPoints, feed \in Fetched, cell \in FetchedCells, n \in Lookbacks :
        Main("cmd_update", [command |-> "update", days_lookback |-> n],
             cmd_update(Db, feed, cell, n, fault))

CmdSync ==
    \E fault \in FaultPoints, frame \in Fetched, cell \in FetchedCells, answer \in BOOLEAN :
        Main("cmd_sync", [command |-> "sync"], cmd_sync(Db, frame, cell, answer, fault))

\* ------------------------------------------------------------- specification
Next ==
    \/ OtherWriter
    \/ CmdSetup
    \/ CmdLoaddata
    \/ CmdUpdate
    \/ CmdSync
    \/ CreateFtIbovespaTable
    \/ Optimize
    \/ Connect
    \/ Disconnect
    \/ Enter
    \/ Exit
    \/ ExecuteQuery
    \/ Reconcile
    \/ ReconcileAnySize
    \/ ReconcileAgain
    \/ InsertBatch
    \/ UpdateBatch
    \/ Return

Spec == Init /\ [][Next]_vars

\* The connection lifecycle alone: connect, disconnect, the with block and,
\* as the unit of work of the block, single statements.
NextConn ==
    \/ Connect
    \/ Disconnect
    \/ Enter
    \/ Exit
    \/ ExecuteQuery
    \/ Return

SpecConn == Init /\ [][NextConn]_vars

\* Every attempt of the call either connected and got its cursor, or was
\* refused: no connection was opened and left without a cursor.
NoCursorless == \A k \in DOMAIN outcomes : outcomes[k] # "nocursor"

\* The program as its users run it: one command after another.
NextCommands ==
    \/ CmdSetup
    \/ CmdLoaddata
    \/ CmdUpdate
    \/ CmdSync
    \/ Return

SpecCommands == Init /\ [][NextCommands]_vars

\* The store operations, run as the program runs them: inside with blocks,
\* on connections that got their cursor (SpecConn has the others).
NextStore ==
    \/ Enter /\ NoCursorless'
    \/ Exit
    \/ ExecuteQuery
    \/ Reconcile
    \/ InsertBatch
    \/ UpdateBatch
    \/ Return

SpecStore == Init /\ [][NextStore]_vars

\* The same, with calls of insert_ibovespa_data of any batch size.
NextSizes ==
    \/ Enter /\ NoCursorless'
    \/ Exit
    \/ ExecuteQuery
    \/ ReconcileAnySize
    \/ InsertBatch
    \/ UpdateBatch
    \/ Return

SpecSizes == Init /\ [][NextSizes]_vars

\* No two records of the frame have the same day.
DistinctDays == \A i, k \in DOMAIN data : data[i].day = data[k].day => i = k

\* Schema setup and maintenance in with blocks, on a table that calls of
\* insert_ibovespa_data fill.
NextSchema ==
    \/ Enter /\ NoCursorless'
    \/ Exit
    \/ CreateFtIbovespaTable
    \/ Optimize
    \/ Reconcile /\ DistinctDays'
    \/ InsertBatch
    \/ UpdateBatch
    \/ Return

SpecSchema == Init /\ [][NextSchema]_vars

\* The same on frames of distinct days, with the caller free to repeat a
\* call on the same frame.
NextRerun ==
    \/ Enter /\ NoCursorless'
    \/ Exit
    \/ ExecuteQuery
    \/ Reconcile /\ DistinctDays'
    \/ ReconcileAgain
    \/ InsertBatch
    \/ UpdateBatch
    \/ Return

SpecRerun == Init /\ [][NextRerun]_vars

\* The store operations on frames of distinct days, with another session
\* writing to the table.
NextWriter ==
    \/ Enter /\ NoCursorless'
    \/ Exit
    \/ ExecuteQuery
    \/ Reconcile /\ DistinctDays'
    \/ InsertBatch
    \/ UpdateBatch
    \/ OtherWriter
    \/ Return

SpecWriter == Init /\ [][NextWriter]_vars

\* ------------------------------------------------------------- properties
\* What the properties below say of a table, stated without the operators
\* of the model.
Stored(v) == IF v = NaN THEN NULL ELSE v

\* The values a batch carries for day d, as stored, in the batch's order.
DayVals(batch, d) ==
    LET OfDay(p) == p.date.day = d
        s == SelectSeq(batch, OfDay)
    IN [k \in DOMAIN s |-> Stored(s[k].val)]

\* The table after a batch is applied in full.
Applied(tbl, verb, batch) ==
    [d \in Dates |->
        LET vs == DayVals(batch, d)
        IN IF vs = <<>> THEN tbl[d]
           ELSE IF verb = "INSERT" THEN tbl[d] \o vs
           ELSE [i \in DOMAIN tbl[d] |-> vs[Len(vs)]]]

\* The rows in which two tables of the same shape differ.
Differing(a, b) ==
    Cardinality({di \in Dates \X (1..MaxRecs + 1) :
                    /\ di[2] \in DOMAIN a[di[1]]
                    /\ di[2] \in DOMAIN b[di[1]]
                    /\ a[di[1]][di[2]] # b[di[1]][di[2]]})

Count(seq, x) == Cardinality({k \in DOMAIN seq : seq[k] = x})

Ceil(n, b) == (n + b - 1) \div b

RECURSIVE Concat(_, _)
Concat(batches, k) ==
    IF k > Len(batches) THEN <<>> ELSE batches[k].batch \o Concat(batches, k + 1)

Reconciling == op = "insert_ibovespa_data"

\* The call got as far as the classification loop.
Classified == Reconciling /\ data # <<>> /\ cursor # NoCursor

\* The tuple the loop queues for a record of the frame.
QueuedTuple(rec) == [date |-> [type |-> "text", day |-> rec.day], val |-> rec.val]

SnapshotDays == {v.day : v \in existing_dates}

\* The batches of one statement among those submitted, in order.
BatchesOf(verb) ==
    LET OfVerb(e) == e.query = verb
    IN SelectSeq(submitted, OfVerb)

\* C1: the records of the frame whose day is in the key snapshot are queued
\* as updates, all the others as inserts, each queue in the frame's order;
\* a snapshot that was read holds exactly the days the store held when the
\* call started.
C1_Partition ==
    Classified =>
        LET InSnapshot(rec) == rec.day \in SnapshotDays
            NotInSnapshot(rec) == rec.day \notin SnapshotDays
            upd == SelectSeq(data, InSnapshot)
            ins == SelectSeq(data, NotInSnapshot)
        IN /\ updates = [k \in DOMAIN upd |-> QueuedTuple(upd[k])]
           /\ inserts = [k \in DOMAIN ins |-> QueuedTuple(ins[k])]
           /\ Len(updates) + Len(inserts) = Len(data)
           /\ snapshotRead =>
                existing_dates = {[type |-> "date", day |-> d] : d \in TableDates(startTable)}

\* A call on a store holding one of the frame's two days: one update, one insert.
C1_Witness ==
    /\ Classified
    /\ snapshotRead
    /\ Len(updates) = 1
    /\ Len(inserts) = 1
    /\ Cardinality(TableDates(startTable)) = 1

\* C2: the second of two calls on the same frame of N distinct days, the
\* first of them started on an empty store and returned: it raises no
\* duplicate-key error, leaves one row per day, and returns with
\* inserted = 0 and updated = N.
C2_SecondCall ==
    (/\ Reconciling
     /\ rerun
     /\ prev.returned
     /\ prev.emptyStart
     /\ snapshotRead
     /\ DistinctDays) =>
        /\ raised # DuplicateKey
        /\ \A d \in Dates : Len(store[d]) <= 1
        /\ pc = "returned" => inserted = 0 /\ updated = Len(data)

\* The batch that failed, counted within the batches of its statement.
FailedBatchNum == Len(BatchesOf(submitted[Len(submitted)].query))

\* A record that names batch j.
NamesBatch(r, j) == "batch_num" \in DOMAIN r /\ r.batch_num = j

\* A call that a failing batch ended: the batches before it are committed,
\* each applied in full to what the one before it left; the failing batch is
\* not applied; no further batch can be submitted; the driver's error is
\* raised.
BatchFailure ==
    LET j == Len(submitted)
    IN /\ submitted[j].raised # NoErr
       /\ \A k \in 1..(j - 1) : submitted[k].raised = NoErr
       /\ submitted[1].before = startTable
       /\ \A k \in 1..(j - 1) :
            submitted[k + 1].before =
                Applied(submitted[k].before, submitted[k].query, submitted[k].batch)
       /\ store = submitted[j].before
       /\ work = store
       /\ ~ENABLED InsertBatch
       /\ ~ENABLED UpdateBatch
       /\ raised = submitted[j].raised
       /\ IsDriverError(raised)

\* C3 (as amended): when batch j of a call fails, every batch before j stays
\* committed, batch j is not applied at all, no batch after j is submitted,
\* and the call raises the driver's error as it is: neither the error nor an
\* error record of the log names the batch.
C3_FailedBatch ==
    (Reconciling /\ pc = "raised" /\ submitted # <<>>) =>
        /\ BatchFailure
        /\ ~NamesBatch(raised, FailedBatchNum)
        /\ \A k \in DOMAIN log :
             log[k].level = "error" => ~NamesBatch(log[k], FailedBatchNum)

\* C3 (as claimed): ... and the call raises an error that identifies the
\* failing batch.
C3_Original ==
    (Reconciling /\ pc = "raised" /\ submitted # <<>>) =>
        /\ BatchFailure
        /\ NamesBatch(raised, FailedBatchNum)

\* The second batch of a call failed after the first changed the store.
C3_Witness ==
    /\ Reconciling
    /\ pc = "raised"
    /\ Len(submitted) >= 2
    /\ store # startTable
    /\ store = submitted[2].before

\* C4: each batch execute_many was given ran as one transaction.  Succeeded:
\* one commit, after executemany; the store holds the whole batch; the count
\* returned is the rows the batch affected (the rows inserted; for UPDATE the
\* rows it changed: the rows of one frame carry the same values, so no row
\* changes twice).  Failed on a driver error: rollback, the store as before
\* the batch, nothing pending, the error raised.
C4_Transaction ==
    (Reconciling /\ submitted # <<>>) =>
        LET j == Len(submitted)
            e == submitted[j]
            n == Len(trace)
        IN /\ Count(trace, "executemany") = j
           /\ IF e.raised = NoErr
              THEN /\ SubSeq(trace, n - 1, n) = <<"executemany", "commit">>
                   /\ Count(trace, "commit") = j
                   /\ store = Applied(e.before, e.query, e.batch)
                   /\ work = store
                   /\ e.result.kind = "int"
                   /\ e.query = "INSERT" => e.result.n = Len(e.batch)
                   /\ e.query = "UPDATE" => e.result.n = Differing(e.before, store)
              ELSE /\ trace[n] = "rollback"
                   /\ store = e.before
                   /\ work = store
                   /\ pc = "raised"
                   /\ raised = e.raised
                   /\ IsDriverError(raised)

\* A batch of two parameter sets failed at its second one.
C4_Witness ==
    /\ Reconciling
    /\ submitted # <<>>
    /\ Len(submitted[Len(submitted)].batch) = 2
    /\ submitted[Len(submitted)].raised = DuplicateKey

\* C5: the batches submitted for a queue of n tuples are its chunks of
\* batch_size b, in order: none empty, each of b tuples but the last, which
\* has n - b * (ceil(n/b) - 1); a call that returned submitted ceil(n/b) of
\* them, which together are the queue, and inserted as many rows as the
\* insert queue holds.  The two queues are chunked apart.
C5_Chunking ==
    Classified =>
        \A verb \in {"INSERT", "UPDATE"} :
            LET queue == IF verb = "INSERT" THEN inserts ELSE updates
                n == Len(queue)
                b == batch_size
                bs == BatchesOf(verb)
                all == Concat(bs, 1)
            IN /\ Len(bs) <= Ceil(n, b)
               /\ \A k \in DOMAIN bs :
                    /\ bs[k].batch # <<>>
                    /\ Len(bs[k].batch) = IF k < Ceil(n, b) THEN b
                                          ELSE n - b * (Ceil(n, b) - 1)
               /\ all = SubSeq(queue, 1, Len(all))
               /\ pc = "returned" =>
                    /\ Len(bs) = Ceil(n, b)
                    /\ all = queue
                    /\ inserted = Len(inserts)

\* A call returned that needed two batches for its insert queue.
C5_Witness ==
    /\ Classified
    /\ pc = "returned"
    /\ Len(BatchesOf("INSERT")) >= 2
    /\ Len(inserts) > batch_size

\* C6: a call with an empty frame returns 0 and makes no driver call at
\* all: no batch, no commit, no rollback; the store is as it was.
C6_EmptyInput ==
    (Reconciling /\ data = <<>>) =>
        /\ pc = "returned"
        /\ result = RetInt(0)
        /\ raised = NoErr
        /\ trace = <<>>
        /\ submitted = <<>>
        /\ store = startTable
        /\ work = store

\* An empty frame on a store that holds rows, in a with block.
C6_Witness ==
    /\ Reconciling
    /\ data = <<>>
    /\ pc = "returned"
    /\ RowCount(store) > 0
    /\ cursor # NoCursor

Connecting == op \in {"connect", "__enter__"}

\* What a call of connect did, but for the error it raised: it stopped at
\* the first attempt that succeeded and holds that connection; or every one
\* of its max_retries attempts failed; it waited retry_delay between an
\* attempt and the next, and not after the last.
ConnectAttempts ==
    LET n == connectArgs.max_retries
        tried == Len(attemptErrors) + (IF raised = NoErr THEN 1 ELSE 0)
    IN /\ tried <= n \/ (n = 0 /\ tried = 0)
       /\ \A k \in 1..Len(attemptErrors) : outcomes[k] # "ok"
       /\ slept = [k \in 1..(IF tried > 0 THEN tried - 1 ELSE 0) |-> connectArgs.retry_delay]
       /\ IF pc = "returned"
          THEN /\ raised = NoErr
               /\ outcomes[tried] = "ok"
               /\ conn # NoConn
               /\ cursor = conn
               /\ conn \in opened
          ELSE /\ pc = "raised"
               /\ Len(attemptErrors) = n
               /\ raised # NoErr

\* C7 (as amended): ... when every attempt fails, connect raises the last
\* underlying error itself, which is the driver's error and no
\* ConnectionError; it raises a ConnectionError, carrying no error, only
\* when max_retries allows no attempt.
C7_Connect ==
    Connecting =>
        /\ ConnectAttempts
        /\ pc = "raised" =>
             IF connectArgs.max_retries > 0
             THEN /\ raised = attemptErrors[Len(attemptErrors)]
                  /\ IsDriverError(raised)
                  /\ raised.errno # ConnectionError.errno
             ELSE raised = ConnectionError

\* C7 (as claimed): ... and then fails with a ConnectionError carrying the
\* last underlying error.
C7_Original ==
    Connecting =>
        /\ ConnectAttempts
        /\ pc = "raised" =>
             /\ raised.errno = ConnectionError.errno
             /\ connectArgs.max_retries > 0 =>
                  /\ "cause" \in DOMAIN raised
                  /\ raised.cause = attemptErrors[Len(attemptErrors)]

\* A connect that failed twice, for two different reasons, with a wait between.
C7_Witness ==
    /\ op = "connect"
    /\ pc = "raised"
    /\ Len(attemptErrors) = 2
    /\ attemptErrors[1] # attemptErrors[2]
    /\ Len(slept) = 1

\* C8: when a with block has ended, by whichever path, the manager holds no
\* connection and no cursor, and the connection the block ran on is closed.
C8_Release ==
    op = "__exit__" =>
        /\ exitPath \in ExitPaths
        /\ ~inWith
        /\ conn = NoConn
        /\ cursor = NoCursor
        /\ blockConn # NoConn
        /\ blockConn \notin opened

\* A block left by an exception, which goes on to the caller.
C8_Witness ==
    /\ op = "__exit__"
    /\ exitPath = "exception"
    /\ raised # NoErr
    /\ pc = "raised"

\* C9: disconnect raises nothing and leaves the manager with no connection
\* and no cursor, in whatever state it is called.
C9_Disconnect ==
    op = "disconnect" =>
        /\ raised = NoErr
        /\ pc = "returned"
        /\ conn = NoConn
        /\ cursor = NoCursor

QueryRunning == op = "execute_query" /\ cursor # NoCursor

\* What execute_query does, but for what its error carries.  A SELECT:
\* every row of the result, no commit.  Another statement: a commit, None.
\* A driver error: a rollback, the store as it was, nothing pending, the
\* error raised.
QueryOutcome ==
    IF raised = NoErr
    THEN /\ pc = "returned"
         /\ IF statement \in {SelectDates.text, SelectCount.text}
            THEN /\ result.kind = "rows"
                 /\ Count(trace, "commit") = 0
                 /\ store = startTable
                 /\ work = store
                 /\ statement = SelectDates.text =>
                      /\ Len(result.rows) = RowCount(store)
                      /\ {r[1].day : r \in {result.rows[k] : k \in DOMAIN result.rows}}
                           = TableDates(store)
                 /\ statement = SelectCount.text => result.rows = << <<RowCount(store)>> >>
            ELSE /\ result = RetNone
                 /\ trace = <<"execute", "commit">>
                 /\ work = store
    ELSE /\ pc = "raised"
         /\ IsDriverError(raised)
         /\ trace[Len(trace)] = "rollback"
         /\ store = startTable
         /\ work = store

\* C10 (as amended): ... on a driver error it rolls back and raises the
\* driver's error as it is, which carries no statement; the statement is in
\* the error record it logs.
C10_ExecuteQuery ==
    QueryRunning =>
        /\ QueryOutcome
        /\ raised # NoErr =>
             /\ raised.stmt = NoStmt
             /\ \E k \in DOMAIN log :
                  /\ log[k].level = "error"
                  /\ log[k].err = raised
                  /\ log[k].query = statement

\* C10 (as claimed): ... and re-raises an error tagged with the failing
\* statement.
C10_Original ==
    QueryRunning =>
        /\ QueryOutcome
        /\ raised # NoErr => raised.stmt = statement

\* A statement other than a SELECT whose commit failed, on a store with rows.
C10_Witness ==
    /\ QueryRunning
    /\ raised = ServerGone
    /\ trace = <<"execute", "commit", "rollback">>
    /\ RowCount(store) > 0

\* C11: no bound parameter is the not-a-number sentinel.  Neither the
\* committed rows nor the rows of the open transaction ever hold it; the
\* rows a committed INSERT batch added hold NULL where the record's field
\* was missing and the record's value where it was not.
C11_NoNaNBound ==
    /\ \A d \in Dates : \A i \in DOMAIN store[d] : store[d][i] # NaN
    /\ \A d \in Dates : \A i \in DOMAIN work[d] : work[d][i] # NaN
    /\ (Reconciling /\ submitted # <<>>) =>
         LET e == submitted[Len(submitted)]
         IN (e.raised = NoErr /\ e.query = "INSERT") =>
              \A k \in DOMAIN e.batch :
                 LET d == e.batch[k].date.day
                     v == e.batch[k].val
                 IN /\ store[d] # <<>>
                    /\ store[d][Len(store[d])] = IF v \in {NaN, NULL} THEN NULL ELSE v

\* A record with a NaN field was inserted and its row holds NULL.
C11_Witness ==
    /\ Reconciling
    /\ submitted # <<>>
    /\ submitted[Len(submitted)].raised = NoErr
    /\ submitted[Len(submitted)].query = "INSERT"
    /\ \E k \in DOMAIN data : data[k].val = NaN /\ store[data[k].day] = <<NULL>>

\* C12: the key set is empty when the table has no rows and when the key
\* query failed.  A call whose key query failed queues every record as an
\* insert; if a record's day is stored, the call cannot return: it ends in
\* an insert batch that failed and was rolled back and in the driver's
\* error; and no row stored at the start is changed or lost.
C12_FailedInventory ==
    /\ (Classified /\ snapshotRead /\ startTable = EmptyTable) => existing_dates = {}
    /\ (Classified /\ ~snapshotRead) =>
         /\ existing_dates = {}
         /\ updates = <<>>
         /\ Len(inserts) = Len(data)
         /\ \A d \in TableDates(startTable) : store[d] = startTable[d]
         /\ (\E k \in DOMAIN data : data[k].day \in TableDates(startTable)) =>
              /\ pc \in {"inserting", "raised"}
              /\ pc = "raised" =>
                   /\ submitted # <<>>
                   /\ submitted[Len(submitted)].query = "INSERT"
                   /\ submitted[Len(submitted)].raised = raised
                   /\ IsDriverError(raised)
                   /\ store = submitted[Len(submitted)].before
                   /\ work = store

\* The key query failed and the insert of a stored day was refused.
C12_Witness ==
    /\ Classified
    /\ ~snapshotRead
    /\ pc = "raised"
    /\ raised = DuplicateKey
    /\ RowCount(startTable) > 0
    /\ store = startTable

\* The call repeats, on the same frame of distinct days, a call that a
\* failing batch ended, and its key query succeeded.
RerunAfterFailure ==
    /\ Reconciling
    /\ rerun
    /\ ~prev.returned
    /\ cursor # NoCursor
    /\ snapshotRead
    /\ DistinctDays

\* C14: the repeated call queues the days the store holds (those the first
\* call committed among them) as updates and the rest as inserts; it raises
\* no duplicate-key error: if it raises, it raises a failure of the driver
\* met anew; when it returns the store holds one row for every day of the
\* frame.
C14_Rerun ==
    RerunAfterFailure =>
        /\ \A k \in DOMAIN updates : updates[k].date.day \in TableDates(startTable)
        /\ \A k \in DOMAIN inserts : inserts[k].date.day \notin TableDates(startTable)
        /\ Len(updates) + Len(inserts) = Len(data)
        /\ raised # DuplicateKey
        /\ pc = "raised" => raised = ServerGone
        /\ pc = "returned" => \A k \in DOMAIN data : Len(store[data[k].day]) = 1

\* The first call committed one batch and failed at the next; the repeated
\* call updated the one day and inserted the other.
C14_Witness ==
    /\ RerunAfterFailure
    /\ pc = "returned"
    /\ inserts # <<>>
    /\ updates # <<>>
    /\ Len(submitted) = 2

\* The sum of the counts the committed batches of one statement reported.
RECURSIVE Reported(_, _, _)
Reported(batches, verb, k) ==
    IF k > Len(batches) THEN 0
    ELSE (IF batches[k].query = verb /\ batches[k].raised = NoErr
          THEN batches[k].result.n ELSE 0) + Reported(batches, verb, k + 1)

\* C17: inserted is the sum of the counts the insert batches reported,
\* updated the sum of the counts the update batches reported, each batch
\* counted once; a call that returns, returns inserted + updated.
C17_Total ==
    Classified =>
        /\ inserted = Reported(submitted, "INSERT", 1)
        /\ updated = Reported(submitted, "UPDATE", 1)
        /\ pc = "returned" =>
             result = RetInt(Reported(submitted, "INSERT", 1) + Reported(submitted, "UPDATE", 1))

\* A call returned after an insert batch and an update batch that changed
\* a row.
C17_Witness ==
    /\ Classified
    /\ pc = "returned"
    /\ Len(BatchesOf("INSERT")) = 1
    /\ Len(BatchesOf("UPDATE")) = 1
    /\ inserted = 1
    /\ updated = 1
    /\ result = RetInt(2)

\* C18: no insert batch is submitted after an update batch, and the update
\* loop starts when every insert batch is submitted; the batches of each
\* statement follow the queue, which follows the frame; a batch is
\* submitted on the store the batch before it committed.
C18_Order ==
    Classified =>
        /\ \A i, k \in DOMAIN submitted :
             (submitted[i].query = "UPDATE" /\ submitted[k].query = "INSERT") => k < i
        /\ pc = "updating" => Concat(BatchesOf("INSERT"), 1) = inserts
        /\ \A verb \in {"INSERT", "UPDATE"} :
             LET queue == IF verb = "INSERT" THEN inserts ELSE updates
                 all == Concat(BatchesOf(verb), 1)
             IN /\ Len(all) <= Len(queue)
                /\ \A k \in DOMAIN all : all[k] = queue[k]
        /\ \A i, k \in DOMAIN inserts :
             i < k => \E m, n \in DOMAIN data :
                        m < n /\ QueuedTuple(data[m]) = inserts[i] /\ QueuedTuple(data[n]) = inserts[k]
        /\ \A k \in 1..(Len(submitted) - 1) :
             /\ submitted[k].raised = NoErr
             /\ submitted[k + 1].before =
                  Applied(submitted[k].before, submitted[k].query, submitted[k].batch)

\* An update batch was submitted after the insert batch of the call, for a
\* frame whose first record was the one to update.
C18_Witness ==
    /\ Classified
    /\ Len(submitted) = 2
    /\ submitted[1].query = "INSERT"
    /\ submitted[2].query = "UPDATE"
    /\ QueuedTuple(data[1]) = updates[1]

\* C20: the committed rows never hold two rows of one date, and neither do
\* the rows of the open transaction.
C20_UniqueDates ==
    /\ \A d \in Dates : Len(store[d]) <= 1
    /\ \A d \in Dates : Len(work[d]) <= 1

\* A call failed on a duplicate key with every date stored.
C20_Witness ==
    /\ Reconciling
    /\ raised = DuplicateKey
    /\ TableDates(store) = Dates

\* C19: another session committed, after the key read, a date that is in
\* the insert queue.  The call cannot return: the insert batch that meets
\* the date fails, and the call ends with that batch rolled back and the
\* driver's error raised (the uniqueness violation, unless the driver fails
\* otherwise before); no date has two rows.
C19_OtherWriter ==
    (Classified /\ \E k \in DOMAIN inserts : inserts[k].date.day \in written) =>
        /\ pc \in {"inserting", "raised"}
        /\ pc = "raised" =>
             /\ submitted # <<>>
             /\ submitted[Len(submitted)].query = "INSERT"
             /\ submitted[Len(submitted)].raised = raised
             /\ raised \in {DuplicateKey, ServerGone}
             /\ store = submitted[Len(submitted)].before
             /\ work = store
        /\ \A d \in Dates : Len(store[d]) <= 1

\* The call read the keys, the other session committed a date of the insert
\* queue, and the insert batch with that date was refused.
C19_Witness ==
    /\ Classified
    /\ snapshotRead
    /\ pc = "raised"
    /\ raised = DuplicateKey
    /\ \E k \in DOMAIN submitted[Len(submitted)].batch :
         submitted[Len(submitted)].batch[k].date.day \in written

\* ------------------------------------------------------------- schema setup
\* A CREATE INDEX statement for the name went to execute_query in the call
\* that wrote the log: it succeeded, or its failure was logged.
Issued(name, lg) ==
    \E k \in DOMAIN lg :
        \/ lg[k].level = "info" /\ lg[k].what = "index added" /\ lg[k].text = name
        \/ /\ lg[k].level = "error"
           /\ lg[k].what = "execute_query"
           /\ lg[k].query = CreateIndex(name).text

Failures(lg) == {k \in DOMAIN lg : lg[k].level \in {"error", "warning"}}

Warned(what) ==
    \E k \in DOMAIN log : log[k].level = "warning" /\ log[k].what = what

\* C13: schema setup is idempotent.  A call on an open connection, whatever
\* calls came before it, leaves the rows alone and never loses an index;
\* no statement of it is refused by the server for an object that is
\* already there (the only errors are failures of the driver, and only
\* one at CREATE TABLE is raised); a CREATE INDEX statement is issued only
\* for a name that the table did not have when the call started; and a call
\* in which no statement failed returns with the table, its unique index on
\* date (part of the table), idx_year_month and idx_close in place.
C13_Idempotent ==
    [][(/\ pc = "idle"
        /\ op' = "create_ft_ibovespa_table"
        /\ cursor # NoCursor)
       => /\ store' = store
          /\ indices \subseteq indices'
          /\ indices' \subseteq IndexNames
          /\ tableExists => tableExists'
          /\ \A k \in Failures(log') : log'[k].err = ServerGone
          /\ raised' \in {NoErr, ServerGone}
          /\ raised' # NoErr =>
                \E k \in DOMAIN log' :
                    /\ log'[k].level = "error"
                    /\ log'[k].what = "execute_query"
                    /\ log'[k].query = CreateTable.text
          /\ \A name \in IndexNames : Issued(name, log') => name \notin indices
          /\ \A name \in IndexNames :
                (raised' = NoErr /\ ~Issued(name, log') /\ Failures(log') = {})
                    => name \in indices
          /\ Failures(log') = {} =>
                /\ raised' = NoErr
                /\ pc' = "returned"
                /\ tableExists'
                /\ indices' = IndexNames]_vars

\* A repeated call: the lookup found both indices, no statement was issued
\* for either, and the call returned.
C13_Witness ==
    /\ op = "create_ft_ibovespa_table"
    /\ pc = "returned"
    /\ raised = NoErr
    /\ tableExists
    /\ indices = IndexNames
    /\ Failures(log) = {}
    /\ \A name \in IndexNames : ~Issued(name, log)

\* C16: a failure in _add_indices (the lookup or a CREATE INDEX) or of the
\* OPTIMIZE statement is logged as a warning and goes no further:
\* create_ft_ibovespa_table still returns, with the table in place and its
\* closing message logged, and optimize_table returns; in both cases no
\* exception is pending, so the caller goes on to its next statement.
C16_Swallowed ==
    /\ (op = "create_ft_ibovespa_table" /\ Warned("_add_indices")) =>
          /\ raised = NoErr
          /\ pc = "returned"
          /\ tableExists
          /\ log[Len(log)] = InfoLog("create_ft_ibovespa_table", "ready")
    /\ (op = "optimize_table" /\ log # <<>>) =>
          /\ raised = NoErr
          /\ pc = "returned"
          /\ store = startTable
          /\ Failures(log) # {} => Warned("optimize_table")

\* An index could not be created, in a call that returned.
C16_Witness ==
    /\ op = "create_ft_ibovespa_table"
    /\ Warned("_add_indices")
    /\ pc = "returned"
    /\ raised = NoErr
    /\ indices = {}
    /\ Issued("idx_year_month", log)

\* ------------------------------------------------------------- commands
Logged(lg, level, whats) ==
    \E k \in DOMAIN lg : lg[k].level = level /\ lg[k].what \in whats

\* A read of the store failed: the last date, the row count, the keys.
ReadFailed(lg) ==
    Logged(lg, "error", {"get_last_update_date", "get_table_row_count", "get_existing_dates"})

\* No connection, no table, or a batch that was rolled back.
HardFailed(lg) ==
    Logged(lg, "error", {"connect", "create_ft_ibovespa_table", "insert_ibovespa_data"})

Finished == op \in Commands /\ pc \in {"returned", "raised"}

C21_NeverShrinks ==
    [][\A d \in Dates : Len(store'[d]) >= Len(store[d])]_vars

\* Schema setup has run again on a table that holds rows.
C21_Witness ==
    /\ op = "create_ft_ibovespa_table"
    /\ pc = "returned"
    /\ TableDates(startTable) # {}
    /\ store = startTable

\* ------------------------------------------------------------- no retry
\* C22: a reconciliation call submits each batch once.  The k-th batch of a
\* statement is the k-th slice of its queue, every submission is one
\* executemany, the key read is one execute, and a batch that failed is the
\* last one submitted: the call has raised its error.  A single statement
\* sent through execute_query is executed once, failed or not.
C22_NoRetry ==
    /\ Reconciling =>
          /\ \A k \in DOMAIN submitted :
                submitted[k].raised # NoErr =>
                    /\ k = Len(submitted)
                    /\ pc = "raised"
                    /\ raised = submitted[k].raised
          /\ Count(trace, "executemany") = Len(submitted)
          /\ Count(trace, "execute") <= 1
          /\ \A verb \in {"INSERT", "UPDATE"} :
                LET queue == IF verb = "INSERT" THEN inserts ELSE updates
                    sent == BatchesOf(verb)
                IN \A k \in DOMAIN sent :
                     /\ (k - 1) * batch_size < Len(queue)
                     /\ sent[k].batch = Slice(queue, (k - 1) * batch_size, batch_size)
    /\ op = "execute_query" => Count(trace, "execute") <= 1

\* A batch was refused for a duplicate key and the call raised.
C22_Witness ==
    /\ Reconciling
    /\ pc = "raised"
    /\ submitted # <<>>
    /\ submitted[Len(submitted)].raised = DuplicateKey
    /\ raised = DuplicateKey

\* ------------------------------------------------------------- overwrite
\* The batch submitted last.
LastBatch == submitted[Len(submitted)]

UpdateCommitted ==
    /\ Classified
    /\ submitted # <<>>
    /\ LastBatch.query = "UPDATE"
    /\ LastBatch.raised = NoErr

\* C23: when an update batch has committed, the row of every date in the
\* batch is stored and carries the fields of the batch's (last) record of
\* that date, whatever it held before: a number is stored as given, and a
\* field that is NaN or not in the input is stored as NULL.
C23_Overwrite ==
    UpdateCommitted =>
        /\ store = work
        /\ \A d \in Dates :
              LET vs == DayVals(LastBatch.batch, d)
              IN IF vs = <<>>
                 THEN store[d] = LastBatch.before[d]
                 ELSE /\ store[d] # <<>>
                      /\ Len(store[d]) = Len(LastBatch.before[d])
                      /\ \A i \in DOMAIN store[d] : store[d][i] = vs[Len(vs)]
        /\ \A k \in DOMAIN LastBatch.batch :
              LastBatch.batch[k].val \in {NaN, NULL}
                  => \A i \in DOMAIN store[LastBatch.batch[k].date.day] :
                        store[LastBatch.batch[k].date.day][i] = NULL

\* A row that held a number was updated from a record without the field,
\* and holds NULL.
C23_Witness ==
    /\ UpdateCommitted
    /\ \E k \in DOMAIN LastBatch.batch :
          LET d == LastBatch.batch[k].date.day
          IN /\ LastBatch.batch[k].val = NULL
             /\ LastBatch.before[d] = <<"101.50">>
             /\ store[d] = <<NULL>>

\* ------------------------------------------------------------- lookback
\* The update command got as far as calling insert_ibovespa_data.
UpdateRan == op = "cmd_update" /\ data # <<>>

\* The greatest date the store held when the command started.
LastStored == CHOOSE d \in TableDates(startTable) : \A o \in TableDates(startTable) : o <= d

LoggedText(what) == (CHOOSE k \in DOMAIN log : log[k].what = what)

\* C24: an update command that reaches the reconciliation found a last
\* date L, the greatest stored one, and with --days-lookback n fetched and
\* handed over records from day L - n on, none from before.  When the key
\* read of the call succeeded, the records of stored dates are queued as
\* updates and all others, those after L among them, as inserts.
C24_Lookback ==
    UpdateRan =>
        /\ TableDates(startTable) # {}
        /\ Logged(log, "info", {"last_date"})
        /\ log[LoggedText("last_date")].text = DateValue(LastStored)
        /\ log[LoggedText("start_date")].text = LastStored - log[1].text.days_lookback
        /\ \A k \in DOMAIN data : data[k].day >= LastStored - log[1].text.days_lookback
        /\ Len(inserts) + Len(updates) = Len(data)
        /\ ~Logged(log, "error", {"get_existing_dates"}) =>
              /\ \A k \in DOMAIN data :
                    /\ data[k].day \in TableDates(startTable) =>
                          \E j \in DOMAIN updates : updates[j] = QueuedTuple(data[k])
                    /\ data[k].day \notin TableDates(startTable) =>
                          \E j \in DOMAIN inserts : inserts[j] = QueuedTuple(data[k])
                    /\ data[k].day > LastStored =>
                          \E j \in DOMAIN inserts : inserts[j] = QueuedTuple(data[k])
              /\ \A j \in DOMAIN updates : updates[j].date.day \in TableDates(startTable)
              /\ \A j \in DOMAIN inserts : inserts[j].date.day \notin TableDates(startTable)

\* Last date 1, a lookback of one day: the record of day 1 went to update,
\* the record of day 2 to insert, and both are stored.
C24_Witness ==
    /\ UpdateRan
    /\ log[1].text.days_lookback = 1
    /\ TableDates(startTable) = {1}
    /\ Len(updates) = 1
    /\ updates[1].date.day = 1
    /\ Len(inserts) = 1
    /\ inserts[1].date.day = 2
    /\ TableDates(store) = {1, 2}
    /\ result = RetInt(0)

\* ------------------------------------------------------------- connections
\* The connections open after the first k records of a command's log:
\* those connect reported established and disconnect has not yet reported
\* closed.
OpenAt(lg, k) ==
    Cardinality({j \in 1..k : lg[j].level = "info" /\ lg[j].what = Opened.what})
    - Cardinality({j \in 1..k : lg[j].level = "info" /\ lg[j].what = Closed.what})

\* C25: at every point of a setup, loaddata, update or sync command at most
\* one connection to the store is open.
C25_OneAtATime ==
    Finished => \A k \in 0..Len(log) : OpenAt(log, k) <= 1
\* C26: after any sequence of connect and disconnect calls on a manager,
\* every connection that was opened and is not yet closed is the one the
\* manager holds: none is left open with no reference to it.
C26_NoneUnreferenced ==
    (op \in {"connect", "disconnect"} /\ AtRest) => opened \subseteq {conn}
\* The frame is the two queues dealt back in its order: its first record
\* is the head of the queue its day selects, and so on to the end of all
\* three.
RECURSIVE Dealt(_, _, _)
Dealt(frame, ins, upd) ==
    IF frame = <<>> THEN ins = <<>> /\ upd = <<>>
    ELSE IF Head(frame).day \in SnapshotDays
    THEN /\ upd # <<>>
         /\ Head(upd) = QueuedTuple(Head(frame))
         /\ Dealt(Tail(frame), ins, Tail(upd))
    ELSE /\ ins # <<>>
         /\ Head(ins) = QueuedTuple(Head(frame))
         /\ Dealt(Tail(frame), Tail(ins), upd)

\* The records or queued tuples of one day.
OfDay(tuples, d) == {k \in DOMAIN tuples : tuples[k].date.day = d}

\* C27: the classification puts every record of the frame into exactly one
\* queue exactly once, in the frame's order, so that the two queues
\* together are as long as the frame; this also with a day that occurs
\* more than once in the frame: when the day is not in the snapshot all its
\* records are queued as inserts, none as an update.
C27_EveryRecordOnce ==
    Classified =>
        /\ Dealt(data, inserts, updates)
        /\ Len(inserts) + Len(updates) = Len(data)
        /\ \A d \in Dates :
             d \notin SnapshotDays =>
                /\ Cardinality(OfDay(inserts, d)) = Cardinality({k \in DOMAIN data : data[k].day = d})
                /\ OfDay(updates, d) = {}

\* A frame with a day twice that the store does not hold: two insert tuples
\* of one date.
C27_Witness ==
    /\ Classified
    /\ snapshotRead
    /\ \E i, j \in DOMAIN inserts : i < j /\ inserts[i].date = inserts[j].date
    /\ updates # <<>>
\* C28: whatever integer the batch size is, a call on a frame that is not
\* empty ends, and when it has returned every record of the frame has been
\* submitted to the store in exactly one batch: the batches of each
\* statement are, together and in order, its queue.
C28_AllSubmitted ==
    (Reconciling /\ data # <<>> /\ pc = "returned") =>
        /\ Concat(BatchesOf(InsertStmt.verb), 1) = inserts
        /\ Concat(BatchesOf(UpdateStmt.verb), 1) = updates
\* ------------------------------------------------------------- failed insert
\* An insert batch of the call failed.
InsertFailed ==
    /\ Reconciling
    /\ \E k \in DOMAIN submitted :
          submitted[k].query = InsertStmt.verb /\ submitted[k].raised # NoErr

\* The table after the batches among the first k that succeeded, applied one
\* after the other to tbl.
RECURSIVE Committed(_, _, _)
Committed(tbl, batches, k) ==
    IF k = 0 THEN tbl
    ELSE IF batches[k].raised # NoErr THEN Committed(tbl, batches, k - 1)
    ELSE Applied(Committed(tbl, batches, k - 1), batches[k].query, batches[k].batch)

\* C29: when an insert batch of a call fails, no update batch of that call
\* is submitted, before or after: the rows of the dates queued for update
\* hold what they held when the call started, and the store differs from
\* what the call found only by the insert batches committed before the
\* failure.
C29_NoUpdateAfterFailedInsert ==
    InsertFailed =>
        /\ BatchesOf(UpdateStmt.verb) = <<>>
        /\ pc = "raised"
        /\ ~ENABLED UpdateBatch
        /\ \A k \in DOMAIN updates : store[updates[k].date.day] = startTable[updates[k].date.day]
        /\ store = Committed(startTable, submitted, Len(submitted) - 1)
        /\ \A k \in 1..(Len(submitted) - 1) : submitted[k].raised = NoErr

\* The second insert batch of a call failed after the first was committed,
\* with records waiting in the update queue.
C29_Witness ==
    /\ InsertFailed
    /\ Len(submitted) = 2
    /\ updates # <<>>
    /\ store # startTable
\* ------------------------------------------------------------- frame
\* The days that occur in the frame of the call.
InputDays == {data[k].day : k \in DOMAIN data}

\* C30: a reconciliation call changes only rows whose date occurs in its
\* input: at every point of the call, and so when it has returned or
\* raised, the rows of every other date are, committed and in the open
\* transaction alike, what they were when the call started.
C30_OnlyInputDates ==
    Reconciling =>
        \A d \in Dates \ InputDays : store[d] = startTable[d] /\ work[d] = startTable[d]

\* A call that ended after it changed the store, which holds a row of a date
\* that is not in the call's frame.
C30_Witness ==
    /\ Reconciling
    /\ pc \in {"returned", "raised"}
    /\ store # startTable
    /\ \E d \in Dates \ InputDays : store[d] # <<>>
    /\ BatchesOf(UpdateStmt.verb) # <<>>
====
